---- MODULE Spec2Model ----
(***************************************************************************)
(* Space Habitat Designer (src/script.js): the session held by the         *)
(* SpaceHabitatDesigner object and the page it drives, as a state machine. *)
(* One action per event handler; each action is the whole handler.         *)
(*                                                                         *)
(* Numbers.  The metrics are floating point in the source.  Here a length  *)
(* is an integer, and a volume or an area is an integer count of 1/Scale   *)
(* units computed with PiS = round(pi * Scale) and Pi2S = round(pi^2 *     *)
(* Scale).  For every radius 1..13 and height 1..20 the rounded volume,    *)
(* the rounded area and floor(volume / 20) obtained this way equal the     *)
(* ones IEEE doubles give for the source's expressions.                    *)
(*                                                                         *)
(* Not modelled: the scene, camera, lights, grid, theme and view buttons,   *)
(* which none of the session data depends on.  The texts and checkbox      *)
(* flags the page is served with are not in the source: the count text     *)
(* starts at 0 and the checked boxes are an input of each specification.   *)
(* Files offered to the loader always carry shape, radius and height; the  *)
(* systems list may be missing.                                            *)
(*                                                                         *)
(* A placement's position is kept in polar form: the source computes       *)
(* angle = index * (2*pi/N), x = cos(angle) * rho, z = sin(angle) * rho,   *)
(* so the placement sits at turn index/N and at distance rho from the      *)
(* axis.  rho is kept in tenths, y in thousandths.                         *)
(***************************************************************************)
EXTENDS Integers, Sequences, FiniteSets, TLC

VARIABLES
    currentShape,    \* this.currentShape
    currentRadius,   \* this.currentRadius
    currentHeight,   \* this.currentHeight
    systems,         \* this.systems (the systemsGroup holds the same objects)
    checked,         \* the .checked flag of the ten system checkboxes
    systemsCount,    \* text of #systems-count
    info,            \* texts of #volume-display, #surface-display, #crew-display
    form,            \* #shape-type, #radius, #height values and the two labels
    habitatGroup,    \* the shell mesh's geometry and the group's rotation.y
    lastEvent        \* the handler that ran last, the file text it was given
                     \* or wrote, and whether it raised an alert

vars == << currentShape, currentRadius, currentHeight, systems, checked,
           systemsCount, info, form, habitatGroup, lastEvent >>

(***************************************************************************)
(* Program constants                                                       *)
(***************************************************************************)
InitRadius == 10
InitHeight == 15
VolumePerCrew == 20

systemIds ==
    << "life-support", "power", "waste", "thermal", "communications",
       "medical", "sleep", "exercise", "food", "stowage" >>

KnownIds == { systemIds[i] : i \in DOMAIN systemIds }

Shapes == { "cylinder", "sphere", "cube", "torus" }

(***************************************************************************)
(* Bounds of the model                                                     *)
(***************************************************************************)
RadiusSpan == 1   \* the radius slider offers InitRadius .. InitRadius + RadiusSpan
MaxToggle == 1    \* the user toggles the first MaxToggle checkboxes
MaxFrames == 1    \* repaint frames after the constructor's, counted in rotation.y

Scale == 10000
PiS == 31416
Pi2S == 98696

Radii == InitRadius .. (InitRadius + RadiusSpan)
Heights == { InitHeight, InitHeight + 1 }
ToggleIds == { systemIds[i] : i \in 1 .. MaxToggle }

\* Math.random() in tenths, one draw per placement of a layout: every draw
\* 0.5, or the first draw 0.0 and the others 0.5
RandomVectors(n) ==
    { [ i \in 1 .. n |-> IF i <= k THEN 0 ELSE 5 ] : k \in { 0, 1 } }

(***************************************************************************)
(* Geometry metrics: updateHabitatInfo                                     *)
(***************************************************************************)
\* volume, in 1/Scale units
Volume(shape, r, h) ==
    CASE shape = "cylinder" -> PiS * r * r * h
      [] shape = "sphere"   -> (4 * PiS * r * r * r) \div 3
      [] shape = "cube"     -> (r * 2 * h * r * 2) * Scale
      [] shape = "torus"    -> \* 2 * pi^2 * R * (0.3 R)^2 = pi^2 * (18 R^3) / 100
                               LET q == 18 * r * r * r
                               IN  Pi2S * (q \div 100) + (Pi2S * (q % 100)) \div 100

\* surface area, in 1/Scale units
SurfaceArea(shape, r, h) ==
    CASE shape = "cylinder" -> 2 * PiS * r * h + 2 * PiS * r * r
      [] shape = "sphere"   -> 4 * PiS * r * r
      [] shape = "cube"     -> 2 * (r * 2 * h + r * 2 * r * 2 + h * r * 2) * Scale
      [] shape = "torus"    -> (4 * Pi2S * r * (3 * r)) \div 10

\* Math.round and Math.floor of a non-negative quantity held in 1/Scale units
MathRound(x) == (x + Scale \div 2) \div Scale

CrewCapacity(volume) == volume \div (VolumePerCrew * Scale)

\* the three texts updateHabitatInfo writes
updateHabitatInfo(shape, r, h) ==
    [ volume  |-> MathRound(Volume(shape, r, h)),
      surface |-> MathRound(SurfaceArea(shape, r, h)),
      crew    |-> CrewCapacity(Volume(shape, r, h)) ]

\* the geometry createHabitat builds (the torus tube radius in tenths)
Geometry(shape, r, h) ==
    CASE shape = "cylinder" -> << "CylinderGeometry", r, r, h >>
      [] shape = "sphere"   -> << "SphereGeometry", r >>
      [] shape = "cube"     -> << "BoxGeometry", r * 2, h, r * 2 >>
      [] shape = "torus"    -> << "TorusGeometry", r, r * 3 >>

\* createHabitat: the group is emptied and refilled (its rotation stays), and
\* the info texts are rewritten
createHabitat(shape, r, h) ==
    /\ habitatGroup' = [ habitatGroup EXCEPT !.geometry = Geometry(shape, r, h) ]
    /\ info' = updateHabitatInfo(shape, r, h)

(***************************************************************************)
(* The auto-layout engine                                                  *)
(***************************************************************************)
\* faulty variant: the checked kinds taken from the end of the list backwards
RECURSIVE ReverseSeq(_)
ReverseSeq(seq) ==
    IF seq = << >> THEN << >> ELSE Append(ReverseSeq(Tail(seq)), Head(seq))
getEnabledSystemsReversed(chk) ==
    SelectSeq(ReverseSeq(systemIds), LAMBDA id : chk[id])

\* getEnabledSystems: the canonical list filtered by the checkboxes chk
getEnabledSystems(chk) == SelectSeq(systemIds, LAMBDA id : chk[id])

\* this.currentRadius * 0.8, in tenths
EffectiveRadius(r) == r * 8

\* (Math.random() - 0.5) * (this.currentHeight * 0.8) * 0.5, in thousandths,
\* for a draw u given in tenths
Jitter(u, h) == (u - 5) * (h * 8) * 5

\* createSystem at the position autoLayout computes for index (0-based) of n
createSystem(systemType, index, n, r, h, u) ==
    [ type    |-> systemType,
      turnNum |-> index,
      turnDen |-> n,
      rho     |-> EffectiveRadius(r),
      y       |-> Jitter(u, h) ]

\* faulty variant: the angle taken from the 1-based position
LayoutOfOneBased(enabled, r, h, u) ==
    [ i \in 1 .. Len(enabled) |->
        createSystem(enabled[i], i, Len(enabled), r, h, u[i]) ]

\* the placements autoLayout pushes, after its clearSystems, for draws u
LayoutOf(enabled, r, h, u) ==
    [ i \in 1 .. Len(enabled) |->
        createSystem(enabled[i], i - 1, Len(enabled), r, h, u[i]) ]

\* faulty variant: the collection is not emptied
ClearedSystemsKept(old) == old

\* what clearSystems leaves in this.systems, whatever it held: this.systems = []
ClearedSystems(old) == << >>

\* faulty variant: the collection is emptied but the count is not rewritten
clearSystemsStaleCount ==
    /\ systems' = << >>
    /\ systemsCount' = systemsCount

\* clearSystems: empties the collection and rewrites the count from it
clearSystems ==
    /\ systems' = ClearedSystems(systems)
    /\ systemsCount' = Len(systems')

\* autoLayout: clearSystems first, then (unless nothing is enabled) one push
\* per enabled system in list order, then updateSystemsCount
autoLayout(chk, r, h) ==
    LET enabled == getEnabledSystems(chk)
        cleared == ClearedSystems(systems)
    IN  \E u \in RandomVectors(Len(enabled)) :
            /\ systems' = IF Len(enabled) = 0
                          THEN cleared
                          ELSE cleared \o LayoutOf(enabled, r, h, u)
            /\ systemsCount' = Len(systems')

\* faulty variant: the count text shows how many boxes are checked
updateSystemsCountOfChecked ==
    systemsCount' = Len(getEnabledSystems(checked'))

\* updateSystemsCount
updateSystemsCount == systemsCount' = Len(systems)

(***************************************************************************)
(* Layout documents: JSON.stringify, JSON.parse, property reads            *)
(***************************************************************************)
\* JSON values of the three kinds a layout holds
Str(s) == [ type |-> "string", s |-> s, n |-> 0, a |-> << >> ]
Num(n) == [ type |-> "number", s |-> "", n |-> n, a |-> << >> ]
Arr(a) == [ type |-> "array", s |-> "", n |-> 0, a |-> a ]

\* A file's text: its syntax ("object", or "invalid" for text that is not
\* JSON) and, for an object, its "key": value members in the order written.
ObjectText(members) == [ syntax |-> "object", members |-> members ]
InvalidText == [ syntax |-> "invalid", members |-> << >> ]
NoText == [ syntax |-> "none", members |-> << >> ]

\* new Date().toISOString() at the moment of a save
Timestamps == { "2026-11-01T09:00:00.000Z", "2026-11-01T09:00:01.000Z" }

\* faulty variant: the height member written from the radius
JSONstringifyHeightFromRadius(layout) ==
    ObjectText(<< [ key |-> "shape",     value |-> Str(layout.shape) ],
                  [ key |-> "radius",    value |-> Num(layout.radius) ],
                  [ key |-> "height",    value |-> Num(layout.radius) ],
                  [ key |-> "systems",   value |-> Arr(layout.systems) ],
                  [ key |-> "timestamp", value |-> Str(layout.timestamp) ] >>)

\* JSON.stringify(layout, null, 2): the object literal's members in
\* insertion order
JSONstringify(layout) ==
    ObjectText(<< [ key |-> "shape",     value |-> Str(layout.shape) ],
                  [ key |-> "radius",    value |-> Num(layout.radius) ],
                  [ key |-> "height",    value |-> Num(layout.height) ],
                  [ key |-> "systems",   value |-> Arr(layout.systems) ],
                  [ key |-> "timestamp", value |-> Str(layout.timestamp) ] >>)

\* JSON.parse: throws a SyntaxError on text that is not JSON
JSONparse(text) ==
    IF text.syntax = "invalid"
    THEN [ threw |-> TRUE, members |-> << >> ]
    ELSE [ threw |-> FALSE, members |-> text.members ]

\* layout.key: whether the parsed object has the member, and its value
\* (JSON.parse keeps the last of duplicate keys)
Has(obj, key) == \E i \in DOMAIN obj.members : obj.members[i].key = key
Get(obj, key) ==
    LET at == { i \in DOMAIN obj.members : obj.members[i].key = key }
        last == CHOOSE i \in at : \A j \in at : j <= i
    IN  obj.members[last].value

\* faulty variant: only the first element of the list is compared
IncludesFirstOnly(arr, id) == arr.a # << >> /\ arr.a[1] = id

\* layout.systems.includes(id)
Includes(arr, id) == \E i \in DOMAIN arr.a : arr.a[i] = id

\* the layout object saveLayout serializes
saveLayoutText(shape, r, h, chk, ts) ==
    JSONstringify([ shape |-> shape, radius |-> r, height |-> h,
                    systems |-> getEnabledSystems(chk), timestamp |-> ts ])

(***************************************************************************)
(* Files the user may pick in the load dialog                              *)
(***************************************************************************)
LayoutMembers(shape, r, h) ==
    << [ key |-> "shape",  value |-> Str(shape) ],
       [ key |-> "radius", value |-> Num(r) ],
       [ key |-> "height", value |-> Num(h) ] >>

SystemsMember(ids) == [ key |-> "systems", value |-> Arr(ids) ]

\* shape, radius and height but no systems list
MissingSystemsText ==
    ObjectText(LayoutMembers("sphere", InitRadius + 1, InitHeight + 1))

\* a systems list with identifiers outside the ten known kinds
UnknownIdsText ==
    ObjectText(Append(LayoutMembers("cube", InitRadius + 1, InitHeight),
                      SystemsMember(<< "warp-drive", "power", "medical", "holodeck" >>)))

\* a systems list written out of canonical order, one kind twice
OutOfOrderText ==
    ObjectText(Append(LayoutMembers("torus", InitRadius, InitHeight + 1),
                      SystemsMember(<< "medical", "life-support", "medical" >>)))

\* an empty systems list
EmptySystemsText ==
    ObjectText(Append(LayoutMembers("cylinder", InitRadius, InitHeight),
                      SystemsMember(<< >>)))

UploadTexts ==
    { InvalidText, MissingSystemsText, UnknownIdsText, OutOfOrderText,
      EmptySystemsText }

(***************************************************************************)
(* Initial state: the constructor has run                                  *)
(***************************************************************************)
Event(op) == [ op |-> op, text |-> NoText, alert |-> FALSE ]
FileEvent(op, text, alert) == [ op |-> op, text |-> text, alert |-> alert ]

\* the checkboxes checked in the page as served: the first n of the list
PrefixChecked(n) ==
    [ id \in KnownIds |-> \E i \in 1 .. n : systemIds[i] = id ]

InitSession(shape, r, h, chk, op) ==
    /\ currentShape = shape
    /\ currentRadius = r
    /\ currentHeight = h
    /\ systems = << >>
    /\ checked = chk
    /\ systemsCount = 0
    /\ info = updateHabitatInfo(shape, r, h)
    /\ form = [ shape |-> shape, radius |-> r, height |-> h,
                radiusValue |-> r, heightValue |-> h ]
    /\ habitatGroup = [ geometry |-> Geometry(shape, r, h), rotationY |-> 1 ]
    /\ lastEvent = Event(op)

\* the page as served has no system checked
Init ==
    InitSession("cylinder", InitRadius, InitHeight, PrefixChecked(0),
                "constructor")

(***************************************************************************)
(* Event handlers                                                          *)
(***************************************************************************)
\* #shape-type change
ShapeChange(v) ==
    /\ v # form.shape
    /\ currentShape' = v
    /\ form' = [ form EXCEPT !.shape = v ]
    /\ createHabitat(v, currentRadius, currentHeight)
    /\ lastEvent' = Event("shape")
    /\ UNCHANGED << currentRadius, currentHeight, systems, checked, systemsCount >>

\* #radius input
RadiusInput(v) ==
    /\ v # form.radius
    /\ currentRadius' = v
    /\ form' = [ form EXCEPT !.radius = v, !.radiusValue = v ]
    /\ createHabitat(currentShape, v, currentHeight)
    /\ lastEvent' = Event("radius")
    /\ UNCHANGED << currentShape, currentHeight, systems, checked, systemsCount >>

\* #height input
HeightInput(v) ==
    /\ v # form.height
    /\ currentHeight' = v
    /\ form' = [ form EXCEPT !.height = v, !.heightValue = v ]
    /\ createHabitat(currentShape, currentRadius, v)
    /\ lastEvent' = Event("height")
    /\ UNCHANGED << currentShape, currentRadius, systems, checked, systemsCount >>

\* #auto-layout click
AutoLayoutClick ==
    /\ autoLayout(checked, currentRadius, currentHeight)
    /\ lastEvent' = Event("auto-layout")
    /\ UNCHANGED << currentShape, currentRadius, currentHeight, checked, info,
                    form, habitatGroup >>

\* #clear-layout click
ClearLayoutClick ==
    /\ clearSystems
    /\ lastEvent' = Event("clear-layout")
    /\ UNCHANGED << currentShape, currentRadius, currentHeight, checked, info,
                    form, habitatGroup >>

\* #save-layout click: saveLayout hands the serialized layout to the browser
\* as a download
SaveLayoutClick ==
    /\ \E ts \in Timestamps :
          lastEvent' = FileEvent("save-layout",
                                 saveLayoutText(currentShape, currentRadius,
                                                currentHeight, checked, ts),
                                 FALSE)
    /\ UNCHANGED << currentShape, currentRadius, currentHeight, systems, checked,
                    systemsCount, info, form, habitatGroup >>

\* faulty variant: a toggle lays the systems out again
ToggleCheckboxRelayout(id) ==
    /\ checked' = [ checked EXCEPT ![id] = ~ checked[id] ]
    /\ autoLayout(checked', currentRadius, currentHeight)
    /\ lastEvent' = Event("checkbox")
    /\ UNCHANGED << currentShape, currentRadius, currentHeight, info, form,
                    habitatGroup >>

\* a system checkbox changes: the user flips it, the handler rewrites the count
ToggleCheckbox(id) ==
    /\ checked' = [ checked EXCEPT ![id] = ~ checked[id] ]
    /\ updateSystemsCount
    /\ lastEvent' = Event("checkbox")
    /\ UNCHANGED << currentShape, currentRadius, currentHeight, systems, info,
                    form, habitatGroup >>

\* loadLayoutData on a parsed object that has shape, radius and height; it
\* throws, after the assignments above the loop, when there is no systems list
loadLayoutData(layout) ==
    LET shape == Get(layout, "shape").s
        r == Get(layout, "radius").n
        h == Get(layout, "height").n
    IN  /\ form' = [ shape |-> shape, radius |-> r, height |-> h,
                     radiusValue |-> r, heightValue |-> h ]
        /\ currentShape' = shape
        /\ currentRadius' = r
        /\ currentHeight' = h
        /\ IF ~ Has(layout, "systems")
           THEN \* layout.systems is undefined: .includes throws on the first id
                UNCHANGED << checked, systems, systemsCount, info, habitatGroup >>
           ELSE /\ checked' = [ id \in KnownIds |->
                                  Includes(Get(layout, "systems"), id) ]
                /\ createHabitat(shape, r, h)
                /\ autoLayout(checked', r, h)

\* reader.onload of the file picked after #load-layout click: JSON.parse and
\* loadLayoutData inside try, the alert in catch
LoadLayout(text) ==
    LET parsed == JSONparse(text) IN
    IF parsed.threw
    THEN \* JSON.parse threw a SyntaxError
         /\ lastEvent' = FileEvent("load-layout", text, TRUE)
         /\ UNCHANGED << currentShape, currentRadius, currentHeight, systems,
                         checked, systemsCount, info, form, habitatGroup >>
    ELSE /\ loadLayoutData(parsed)
         /\ lastEvent' = FileEvent("load-layout", text, ~ Has(parsed, "systems"))

\* faulty variant: the frame also turns the stored placements with the shell
AnimateTurningSystems ==
    /\ habitatGroup.rotationY < 1 + MaxFrames
    /\ habitatGroup' = [ habitatGroup EXCEPT !.rotationY = @ + 1 ]
    /\ systems' = [ i \in DOMAIN systems |->
                      [ systems[i] EXCEPT !.turnNum = (@ + 1) % systems[i].turnDen ] ]
    /\ UNCHANGED << currentShape, currentRadius, currentHeight, checked,
                    systemsCount, info, form, lastEvent >>

\* animate: one repaint frame (not an event handler: lastEvent stays)
Animate ==
    /\ habitatGroup.rotationY < 1 + MaxFrames
    /\ habitatGroup' = [ habitatGroup EXCEPT !.rotationY = @ + 1 ]
    /\ UNCHANGED << currentShape, currentRadius, currentHeight, systems, checked,
                    systemsCount, info, form, lastEvent >>

Next ==
    \/ \E v \in Shapes : ShapeChange(v)
    \/ \E v \in Radii : RadiusInput(v)
    \/ \E v \in Heights : HeightInput(v)
    \/ AutoLayoutClick
    \/ ClearLayoutClick
    \/ SaveLayoutClick
    \/ \E id \in ToggleIds : ToggleCheckbox(id)
    \/ \E text \in UploadTexts : LoadLayout(text)
    \/ Animate

Spec == Init /\ [][Next]_vars

(***************************************************************************)
(* The layout engine alone, from a page served with any first n systems    *)
(* checked: clicks on auto-layout and clear, checkbox toggles, the radius   *)
(* slider.                                                                  *)
(***************************************************************************)
InitLayout ==
    \E n \in 0 .. Len(systemIds) :
        InitSession("cylinder", InitRadius, InitHeight, PrefixChecked(n),
                    "constructor")

NextLayout ==
    \/ AutoLayoutClick
    \/ ClearLayoutClick
    \/ \E i \in 1 .. MaxToggle + 1 : ToggleCheckbox(systemIds[i])
    \/ \E v \in Radii : RadiusInput(v)

SpecLayout == InitLayout /\ [][NextLayout]_vars

(***************************************************************************)
(* Serialization alone: from any session of the bounded family, a save, or *)
(* a load of any text a save of such a session writes.                      *)
(***************************************************************************)
\* checkbox settings: any of the first MaxToggle boxes, or all ten
SampleChecked ==
    { [ id \in KnownIds |-> id \in on ] : on \in SUBSET ToggleIds }
    \cup { PrefixChecked(Len(systemIds)) }

SavedTexts ==
    { saveLayoutText(shape, r, h, chk, ts) :
        shape \in Shapes, r \in Radii, h \in Heights, chk \in SampleChecked,
        ts \in Timestamps }

\* a session the shape, slider and checkbox handlers lead to from the
\* constructor's (the last of them a checkbox toggle), nothing placed yet
InitRoundTrip ==
    \E shape \in Shapes, r \in Radii, h \in Heights, chk \in SampleChecked :
        InitSession(shape, r, h, chk, "checkbox")

NextRoundTrip ==
    \/ SaveLayoutClick
    \/ \E text \in SavedTexts : LoadLayout(text)

SpecRoundTrip == InitRoundTrip /\ [][NextRoundTrip]_vars

(***************************************************************************)
(* Vocabulary of the properties                                            *)
(***************************************************************************)
\* the kinds whose checkbox is checked in chk, and their position in the
\* canonical order
EnabledSet(chk) == { id \in KnownIds : chk[id] }
CanonicalIndex(id) == CHOOSE i \in DOMAIN systemIds : systemIds[i] = id

\* the i-th enabled kind (1-based): the checked kind with i - 1 checked kinds
\* before it in the canonical order
NthEnabled(chk, i) ==
    CHOOSE id \in EnabledSet(chk) :
        Cardinality({ o \in EnabledSet(chk) :
                        CanonicalIndex(o) < CanonicalIndex(id) }) = i - 1

\* the members of a file's text with a given key, read off the text itself
MembersNamed(text, key) ==
    { i \in DOMAIN text.members : text.members[i].key = key }

\* a document the spec calls malformed: not parseable, or without systems
Malformed(text) ==
    text.syntax = "invalid" \/ MembersNamed(text, "systems") = { }

(***************************************************************************)
(* C1: a load given a malformed document ends in an alert and leaves the   *)
(* current shape, radius, height, the checkboxes and the placement         *)
(* collection exactly as they were before the load.                        *)
(***************************************************************************)
C1_MalformedLoadKeepsSession ==
    [][ (lastEvent'.op = "load-layout" /\ Malformed(lastEvent'.text))
          => /\ lastEvent'.alert
             /\ UNCHANGED << currentShape, currentRadius, currentHeight,
                             checked, systems >> ]_vars

(***************************************************************************)
(* C2: round trip.  A load of the document a save wrote for shape s,       *)
(* radius r, height h and checked systems c, from whatever session the     *)
(* load starts in, ends without alert in a session with exactly s, r, h    *)
(* and c, whatever the timestamp; and every save writes such a document.   *)
(* (SpecRoundTrip)                                                         *)
(***************************************************************************)
C2_RoundTrip ==
    /\ lastEvent.op = "save-layout" => lastEvent.text \in SavedTexts
    /\ lastEvent.op = "load-layout" =>
         \A shape \in Shapes, r \in Radii, h \in Heights,
            chk \in SampleChecked, ts \in Timestamps :
               lastEvent.text = saveLayoutText(shape, r, h, chk, ts) =>
                  /\ ~ lastEvent.alert
                  /\ currentShape = shape
                  /\ currentRadius = r
                  /\ currentHeight = h
                  /\ checked = chk

\* a load of a saved torus layout with all ten systems has been applied
C2_Witness ==
    /\ lastEvent.op = "load-layout"
    /\ lastEvent.text \in SavedTexts
    /\ currentShape = "torus"
    /\ currentRadius = InitRadius + 1
    /\ EnabledSet(checked) = KnownIds
    /\ Len(systems) = Len(systemIds)

(***************************************************************************)
(* C3: after auto-layout with N systems enabled (N = 0..10) there is no    *)
(* alert and the collection holds exactly N placements; the placement at   *)
(* index i (0-based) is of the i-th enabled kind, sits at turn i/N (angle  *)
(* i * 2*pi/N) and at distance 0.8 * the current radius; for N = 0 the     *)
(* collection is empty.  (SpecLayout)                                      *)
(***************************************************************************)
C3_AutoLayoutPlacements ==
    lastEvent.op = "auto-layout" =>
        LET N == Cardinality(EnabledSet(checked)) IN
        /\ ~ lastEvent.alert
        /\ Len(systems) = N
        /\ N = 0 => systems = << >>
        /\ \A i \in 0 .. N - 1 :
              /\ systems[i + 1].type = NthEnabled(checked, i + 1)
              /\ systems[i + 1].turnNum = i
              /\ systems[i + 1].turnDen = N
              /\ 10 * systems[i + 1].rho = 8 * (10 * currentRadius)

\* auto-layout has run with all ten systems enabled
C3_Witness ==
    /\ lastEvent.op = "auto-layout"
    /\ Len(systems) = Len(systemIds)
    /\ systems[Len(systemIds)].turnNum = Len(systemIds) - 1

(***************************************************************************)
(* C4, as claimed: auto-layout does not itself remove placements already   *)
(* in the collection; with no system enabled it is a no-op on them.        *)
(***************************************************************************)
C4_NoImplicitClear ==
    [][ lastEvent'.op = "auto-layout" =>
          /\ \A i \in DOMAIN systems :
                \E j \in DOMAIN systems' : systems'[j] = systems[i]
          /\ EnabledSet(checked) = { } => systems' = systems ]_vars

(***************************************************************************)
(* C4, amended: auto-layout clears implicitly.  Whatever the collection    *)
(* held, after auto-layout it holds only the new placements, as many as    *)
(* there are enabled systems; with no system enabled it is left empty and  *)
(* the displayed count is 0.                                               *)
(***************************************************************************)
C4_AutoLayoutClearsFirst ==
    [][ lastEvent'.op = "auto-layout" =>
          /\ Len(systems') = Cardinality(EnabledSet(checked'))
          /\ EnabledSet(checked') = { } =>
                (systems' = << >> /\ systemsCount' = 0) ]_vars

\* auto-layout has run with nothing enabled
C4_Witness ==
    /\ lastEvent.op = "auto-layout"
    /\ EnabledSet(checked) = { }
    /\ systems = << >>
    /\ systemsCount = 0

(***************************************************************************)
(* C5: the kinds auto-layout places are the checked kinds in the fixed     *)
(* canonical order, so they depend on the set of checked boxes only and    *)
(* not on the order in which the user checked them.  (SpecLayout)          *)
(***************************************************************************)
C5_CanonicalOrder ==
    lastEvent.op = "auto-layout" =>
        /\ { systems[i].type : i \in DOMAIN systems } = EnabledSet(checked)
        /\ \A i, j \in DOMAIN systems :
              i < j => CanonicalIndex(systems[i].type)
                         < CanonicalIndex(systems[j].type)

\* auto-layout has run on a set the user reached by toggling: the first box
\* unchecked, the second and third checked
C5_Witness ==
    /\ lastEvent.op = "auto-layout"
    /\ ~ checked[systemIds[1]]
    /\ checked[systemIds[2]]
    /\ checked[systemIds[3]]
    /\ Len(systems) >= 2
    /\ systems[1].type = systemIds[2]

(***************************************************************************)
(* C6: a load of a well-formed document whose systems list holds           *)
(* identifiers outside the ten known kinds ends without alert; afterwards  *)
(* a known kind is checked exactly when it appears in the list, and the    *)
(* collection holds exactly one placement for each of those kinds.         *)
(***************************************************************************)
\* the identifiers of the text's systems list, read off the text
RECURSIVE RangeOf(_)
RangeOf(seq) ==
    IF seq = << >> THEN { } ELSE { Head(seq) } \cup RangeOf(Tail(seq))

ListedIdsOf(text) ==
    LET at == MembersNamed(text, "systems") IN
    IF at = { } THEN { }
    ELSE RangeOf(text.members[CHOOSE i \in at : TRUE].value.a)

HasUnknownIds(text) ==
    /\ text.syntax = "object"
    /\ MembersNamed(text, "systems") # { }
    /\ ListedIdsOf(text) \ KnownIds # { }

C6_UnknownIdsDropped ==
    (lastEvent.op = "load-layout" /\ HasUnknownIds(lastEvent.text)) =>
        /\ ~ lastEvent.alert
        /\ EnabledSet(checked) = ListedIdsOf(lastEvent.text) \cap KnownIds
        /\ Len(systems) = Cardinality(ListedIdsOf(lastEvent.text) \cap KnownIds)
        /\ \A id \in ListedIdsOf(lastEvent.text) \cap KnownIds :
              Cardinality({ i \in DOMAIN systems : systems[i].type = id }) = 1

\* the document with two unknown and two known identifiers has been loaded
C6_Witness ==
    /\ lastEvent.op = "load-layout"
    /\ HasUnknownIds(lastEvent.text)
    /\ EnabledSet(checked) = { "power", "medical" }
    /\ Len(systems) = 2

(***************************************************************************)
(* C7: the displayed crew capacity always equals floor(volume / 20) of the *)
(* volume of the current shape and dimensions (cube: (2r) * h * (2r)), and *)
(* for a fixed shape it is monotonically non-decreasing in the volume.     *)
(***************************************************************************)
\* floor(v / 20) for a volume v in 1/Scale units, stated by its bounds
IsFloorOfTwentieth(c, v) ==
    /\ c * (VolumePerCrew * Scale) <= v
    /\ v < (c + 1) * (VolumePerCrew * Scale)

C7_CrewCapacityDisplayed ==
    /\ IsFloorOfTwentieth(info.crew,
                          Volume(currentShape, currentRadius, currentHeight))
    /\ currentShape = "cube" =>
          IsFloorOfTwentieth(info.crew,
              ((2 * currentRadius) * currentHeight * (2 * currentRadius)) * Scale)
    /\ \A r \in Radii, h \in Heights :
          Volume(currentShape, r, h)
             <= Volume(currentShape, currentRadius, currentHeight)
          => updateHabitatInfo(currentShape, r, h).crew <= info.crew

(***************************************************************************)
(* C8: a repaint step leaves the current shape, radius, height, the        *)
(* checkboxes and the placement collection unchanged.                      *)
(***************************************************************************)
C8_RepaintReadsOnly ==
    [][ habitatGroup'.rotationY # habitatGroup.rotationY =>
          UNCHANGED << currentShape, currentRadius, currentHeight, checked,
                       systems >> ]_vars

\* a frame has been painted over a non-empty layout
C8_Witness ==
    /\ habitatGroup.rotationY > 1
    /\ systems # << >>
    /\ EnabledSet(checked) # { }

(***************************************************************************)
(* C9: the clear operation leaves the collection empty and the displayed   *)
(* count 0, and leaves shape, radius, height and the checkboxes unchanged. *)
(***************************************************************************)
C9_ClearResets ==
    [][ lastEvent'.op = "clear-layout" =>
          /\ systems' = << >>
          /\ systemsCount' = 0
          /\ UNCHANGED << currentShape, currentRadius, currentHeight,
                          checked >> ]_vars

\* clear has run in a session where systems are enabled
C9_Witness ==
    /\ lastEvent.op = "clear-layout"
    /\ systems = << >>
    /\ systemsCount = 0
    /\ EnabledSet(checked) # { }

(***************************************************************************)
(* C10: every step leaves the collection unchanged, empties it, or         *)
(* replaces it by a fresh layout with one placement per system enabled at  *)
(* that moment (no kind twice); it changes only in auto-layout, clear or a *)
(* load; a change of shape, radius or height and a checkbox toggle leave   *)
(* it unchanged.                                                           *)
(***************************************************************************)
FreshLayout(placed, chk) ==
    /\ Len(placed) = Cardinality(EnabledSet(chk))
    /\ { placed[i].type : i \in DOMAIN placed } = EnabledSet(chk)
    /\ \A i, j \in DOMAIN placed : placed[i].type = placed[j].type => i = j

C10_WholesaleChangesOnly ==
    [][ /\ \/ systems' = systems
           \/ systems' = << >>
           \/ FreshLayout(systems', checked')
        /\ systems' # systems =>
              lastEvent'.op \in { "auto-layout", "clear-layout", "load-layout" }
        /\ lastEvent' # lastEvent
              /\ lastEvent'.op \in { "shape", "radius", "height", "checkbox" }
           => systems' = systems ]_vars

\* a checkbox was toggled off after a layout: its placement is still there
C10_Witness ==
    /\ lastEvent.op = "checkbox"
    /\ systems # << >>
    /\ ~ checked[systems[1].type]

(***************************************************************************)
(* C11: in every state the displayed systems count equals the number of    *)
(* placements in the collection, whatever events led there (auto-layout,   *)
(* clear, checkbox toggles, dimension changes, loads that succeed or       *)
(* fail); a checkbox toggle shows the number of placed systems, not the    *)
(* number of checked ones.                                                 *)
(***************************************************************************)
C11_CountIsPlacements == systemsCount = Len(systems)

\* a box was toggled after a layout: placed and checked numbers differ
C11_Witness ==
    /\ lastEvent.op = "checkbox"
    /\ Len(systems) > 0
    /\ Len(systems) # Cardinality(EnabledSet(checked))
    /\ systemsCount = Len(systems)

(***************************************************************************)
(* C12: after every event (shape, radius or height change, a load that     *)
(* succeeds or fails) the displayed volume, surface area and crew capacity *)
(* are the ones computed from the current shape, radius and height; no     *)
(* state between events shows metrics of earlier values.                   *)
(***************************************************************************)
C12_MetricsNeverStale ==
    info = updateHabitatInfo(currentShape, currentRadius, currentHeight)

====
